---- MODULE Spec2Model ----
(***************************************************************************)
(* Model of DeployableTraderAgentER (prophet_agent/deploy.py): the market  *)
(* selector pick_markets with its recency test recently_betted, the stake  *)
(* sizer calculate_bet_amount and the answer resolver answer_binary_market.*)
(*                                                                         *)
(* Money amounts, probabilities and liquidities are Python floats in the   *)
(* source; here they are fixed-point integers in units of 1/Unit.          *)
(***************************************************************************)
EXTENDS Integers, Sequences, FiniteSets

\* ------------------------------------------------------------------ bounds
\* Longest candidate list handed to pick_markets under Spec.
MaxCandidates == 6

\* Longest candidate list handed to pick_markets under SpecStake.
MaxListed == 1
\* Invocations of the prediction oracle whose answers are laid out in advance.
MaxPredictCalls == 2

\* ------------------------------------------------------- program constants
\* The float 1.0 in fixed point: amounts are counted in 0.0001 of a unit.
Unit == 10000
\* max_markets_per_run of the base class and of the GPT-4 variants.
DefaultMaxMarketsPerRun == 5
GPT4MaxMarketsPerRun == 1

\* ----------------------------------------------------------------- domains
KnownKinds == {"manifold", "omen"}
Kinds == KnownKinds \cup {"other"}
Questions == {"q1", "q2"}

\* The market snapshots the listing provider may return. A record holds what
\* pick_markets reads of a market: its type and its question text. Two listed
\* markets with one question text are two occurrences of the same record.
ListedMarkets ==
    { [kind |-> "manifold", question |-> "q1"],
      [kind |-> "manifold", question |-> "q2"],
      [kind |-> "omen", question |-> "q1"],
      [kind |-> "other", question |-> "q1"] }

RECURSIVE SeqsUpTo(_, _)
SeqsUpTo(S, n) ==
    IF n = 0 THEN { <<>> }
    ELSE LET shorter == SeqsUpTo(S, n - 1)
         IN shorter \cup { Append(s, x) : s \in { t \in shorter : Len(t) = n - 1 }, x \in S }

Range(s) == { s[i] : i \in 1..Len(s) }

VARIABLES
    max_markets_per_run,  \* the agent variant's class attribute
    is_predictable,       \* the predictability oracle: question -> BOOLEAN
    bets,                 \* per platform, per question: bets placed in the last 24h
    markets,              \* the candidate list of the run
    pc,                   \* "idle" | "picked" | "error"
    picked_markets,       \* what the last pick_markets returned
    log,                  \* logger lines of the last pick_markets
    fetches,              \* bet-history fetches issued by the last pick_markets
    evaluated,            \* candidates the last pick_markets loop visited
    bet_market,           \* the market of the latest calculate_bet_amount calls
    bet_of,               \* per decision: the outcome of the call on bet_market
    answer_question,      \* question of the last answer_binary_market call
    oracle_responses,     \* what agent.predict answers, invocation by invocation
    answer_result         \* outcome of the last answer_binary_market call

selectVars == << max_markets_per_run, is_predictable, bets, markets, pc,
                 picked_markets, log, fetches, evaluated >>
stakeVars == << bet_market, bet_of >>
answerVars == << answer_question, oracle_responses, answer_result >>
vars == << selectVars, stakeVars, answerVars >>

\* ------------------------------------------------------------ recently_betted
\* set(... for b in bets): the question texts among the platform's 24h bets.
recently_betted_questions(b, kind) == { q \in Questions : b[kind][q] > 0 }

\* recently_betted reading the other platform's history for a market.
recently_betted_crossed(market, b) ==
    IF market.kind = "manifold"
    THEN [raised |-> FALSE, fetched |-> 1,
          value |-> market.question \in recently_betted_questions(b, "omen")]
    ELSE IF market.kind = "omen"
    THEN [raised |-> FALSE, fetched |-> 1,
          value |-> market.question \in recently_betted_questions(b, "manifold")]
    ELSE [raised |-> TRUE, fetched |-> 0, value |-> FALSE]

\* recently_betted taking every market that is not a Manifold one for an Omen one.
recently_betted_no_else(market, b) ==
    IF market.kind = "manifold"
    THEN [raised |-> FALSE, fetched |-> 1,
          value |-> market.question \in recently_betted_questions(b, "manifold")]
    ELSE [raised |-> FALSE, fetched |-> 1,
          value |-> market.question \in recently_betted_questions(b, "omen")]

\* One call: raised (should_not_happen), the number of history fetches it
\* issued, and the returned membership test.
recently_betted(market, b) ==
    IF market.kind = "manifold"
    THEN [raised |-> FALSE, fetched |-> 1,
          value |-> market.question \in recently_betted_questions(b, "manifold")]
    ELSE IF market.kind = "omen"
    THEN [raised |-> FALSE, fetched |-> 1,
          value |-> market.question \in recently_betted_questions(b, "omen")]
    ELSE [raised |-> TRUE, fetched |-> 0, value |-> FALSE]

\* ------------------------------------------------------------------ logger
LogLooking(q) == [level |-> "info", text |-> "Looking if we recently bet on", question |-> q]
LogRecentlyBetted == [level |-> "info", text |-> "Recently betted, skipping.", question |-> ""]
LogVerifying(q) == [level |-> "info", text |-> "Verifying market predictability for", question |-> q]
LogPredictable(q) == [level |-> "info", text |-> "is predictable", question |-> q]

\* --------------------------------------------------------------- pick_markets
\* The cap test with > for >=.
cap_reached_late(picked, cap) == Len(picked) > cap

\* if len(picked_markets) >= self.max_markets_per_run: break
cap_reached(picked, cap) == Len(picked) >= cap

\* if self.agent.is_predictable(market.question): ... picked_markets.append(market)
append_if_predictable(st, market, oracle) ==
    IF oracle[market.question]
    THEN [st EXCEPT !.log = Append(@, LogPredictable(market.question)),
                    !.picked = Append(@, market)]
    ELSE st

RECURSIVE pick_loop(_, _, _, _, _)
pick_loop(ms, b, oracle, cap, st) ==
    IF st.evaluated = Len(ms)
    THEN [st EXCEPT !.status = "ok"]
    ELSE LET market == ms[st.evaluated + 1]
             r == recently_betted(market, b)
             s1 == [st EXCEPT !.evaluated = @ + 1,
                              !.log = Append(@, LogLooking(market.question)),
                              !.fetches = @ + r.fetched]
         IN IF r.raised
            THEN [s1 EXCEPT !.status = "error", !.picked = <<>>]
            ELSE IF r.value
            THEN pick_loop(ms, b, oracle, cap,
                           [s1 EXCEPT !.log = Append(@, LogRecentlyBetted)])
            ELSE LET s2 == [s1 EXCEPT !.log = Append(@, LogVerifying(market.question))]
                     s3 == append_if_predictable(s2, market, oracle)
                 IN IF cap_reached(s3.picked, cap)
                    THEN [s3 EXCEPT !.status = "ok"]
                    ELSE pick_loop(ms, b, oracle, cap, s3)

pick_markets(ms, b, oracle, cap) ==
    pick_loop(ms, b, oracle, cap,
              [picked |-> <<>>, log |-> <<>>, fetches |-> 0, evaluated |-> 0,
               status |-> "running"])

\* ------------------------------------------------------- calculate_bet_amount
\* What calculate_bet_amount reads of a market: its type, current_p_yes,
\* get_liquidity_in_xdai(), get_minimum_bet_to_win(decision, amount_to_win=1)
\* and get_tiny_bet_amount().amount. Fields a type does not have are 0.
PYesValues == {0, Unit \div 4, Unit \div 2, Unit \div 2 + 1, Unit}
LiquidityValues == {Unit, Unit + 1, 5 * Unit, 5 * Unit + 1, 10 * Unit}
MinimumBetsToWin == {Unit, 10 * Unit, 11 * Unit}

OmenMarkets ==
    { [kind |-> "omen", current_p_yes |-> p, liquidity |-> l,
       minimum_bet_to_win |-> 0, tiny_bet_amount |-> 1] :
      p \in PYesValues, l \in LiquidityValues }
ManifoldMarkets ==
    { [kind |-> "manifold", current_p_yes |-> 0, liquidity |-> 0,
       minimum_bet_to_win |-> b, tiny_bet_amount |-> Unit] : b \in MinimumBetsToWin }
OtherMarkets ==
    { [kind |-> "other", current_p_yes |-> 0, liquidity |-> 0,
       minimum_bet_to_win |-> 0, tiny_bet_amount |-> 0] }
SizedMarkets == OmenMarkets \cup ManifoldMarkets \cup OtherMarkets
NoMarket == [kind |-> "none", current_p_yes |-> 0, liquidity |-> 0,
             minimum_bet_to_win |-> 0, tiny_bet_amount |-> 0]

\* prob_uncertainty: the binary entropy of p, 0 at p = 0 and p = 1 and 1 at
\* p = 0.5, tabulated on PYesValues.
prob_uncertainty(p) ==
    IF p = 0 \/ p = Unit THEN 0
    ELSE IF p = Unit \div 4 \/ p = 3 * (Unit \div 4) THEN 8112
    ELSE Unit

\* stretch_bet_between(probability, min_bet, max_bet)
stretch_bet_between(probability, min_bet, max_bet) ==
    min_bet + ((max_bet - min_bet) * probability) \div Unit

\* The directional adjustment with its two factors exchanged.
directional_adjustment_swapped(amount, decision, current_p_yes) ==
    IF decision = (current_p_yes > Unit \div 2)
    THEN (amount * 125) \div 100
    ELSE (amount * 75) \div 100

\* amount * 0.75 if answer.decision == (market.current_p_yes > 0.5) else amount * 1.25
directional_adjustment(amount, decision, current_p_yes) ==
    IF decision = (current_p_yes > Unit \div 2)
    THEN (amount * 75) \div 100
    ELSE (amount * 125) \div 100

\* The liquidity tiers with >= for > at 5.
omen_max_bet_amount_inclusive(market_liquidity) ==
    IF market_liquidity >= 5 * Unit THEN 2 * Unit
    ELSE IF market_liquidity > Unit THEN Unit \div 10
    ELSE 0

\* 2.0 if market_liquidity > 5 else 0.1 if market_liquidity > 1 else 0
omen_max_bet_amount(market_liquidity) ==
    IF market_liquidity > 5 * Unit THEN 2 * Unit
    ELSE IF market_liquidity > Unit THEN Unit \div 10
    ELSE 0

\* max_bet_amount = 10.0
manifold_max_bet_amount == 10 * Unit

\* The limit without the substitution of the tiny bet amount.
limit_amount_unlimited(amount, max_bet_amount, market) ==
    [amount |-> amount, warned |-> amount > max_bet_amount]

\* if amount > max_bet_amount: ... amount = market.get_tiny_bet_amount().amount
limit_amount(amount, max_bet_amount, market) ==
    IF amount > max_bet_amount
    THEN [amount |-> market.tiny_bet_amount, warned |-> TRUE]
    ELSE [amount |-> amount, warned |-> FALSE]

NoCall == [called |-> FALSE, raised |-> FALSE, base |-> 0, computed |-> 0,
           max_bet_amount |-> 0, amount |-> 0, warned |-> FALSE]

calculate_bet_amount(answer, market) ==
    IF market.kind = "manifold"
    THEN LET amount == market.minimum_bet_to_win
             r == limit_amount(amount, manifold_max_bet_amount, market)
         IN [called |-> TRUE, raised |-> FALSE, base |-> amount, computed |-> amount,
             max_bet_amount |-> manifold_max_bet_amount,
             amount |-> r.amount, warned |-> r.warned]
    ELSE IF market.kind = "omen"
    THEN LET base == stretch_bet_between(prob_uncertainty(market.current_p_yes),
                                         Unit \div 2, Unit)
             amount == directional_adjustment(base, answer.decision, market.current_p_yes)
             max_bet_amount == omen_max_bet_amount(market.liquidity)
             r == limit_amount(amount, max_bet_amount, market)
         IN [called |-> TRUE, raised |-> FALSE, base |-> base, computed |-> amount,
             max_bet_amount |-> max_bet_amount,
             amount |-> r.amount, warned |-> r.warned]
    ELSE [NoCall EXCEPT !.called = TRUE, !.raised = TRUE]

\* ------------------------------------------------------- answer_binary_market
\* An outcome prediction of the oracle; an Optional is a sequence of length
\* at most one, None being <<>>.
OutcomePredictions ==
    [decision : BOOLEAN, p_yes : {Unit \div 5, (4 * Unit) \div 5},
     confidence : {Unit \div 2, Unit}]
OptionalOutcomes == { <<>> } \cup { <<o>> : o \in OutcomePredictions }

LogPredictionFailed(q) == [level |-> "error", text |-> "Prediction failed for", question |-> q]
LogAnswering(q, d) == [level |-> "info", text |-> "Answering", question |-> q, decision |-> d]

\* answer_binary_market asking the oracle again after a failed prediction.
answer_binary_market_retrying(question, responses) ==
    IF responses[1] # <<>>
    THEN [called |-> TRUE, returned |-> responses[1], calls |-> 1,
          log |-> << LogAnswering(question, responses[1][1].decision) >>]
    ELSE IF responses[2] # <<>>
    THEN [called |-> TRUE, returned |-> responses[2], calls |-> 2,
          log |-> << LogAnswering(question, responses[2][1].decision) >>]
    ELSE [called |-> TRUE, returned |-> <<>>, calls |-> 2,
          log |-> << LogPredictionFailed(question) >>]

\* responses[i] is the outcome_prediction of the i-th self.agent.predict call.
answer_binary_market(question, responses) ==
    LET prediciton == responses[1]
    IN IF prediciton = <<>>
       THEN [called |-> TRUE, returned |-> <<>>, calls |-> 1,
             log |-> << LogPredictionFailed(question) >>]
       ELSE [called |-> TRUE, returned |-> prediciton, calls |-> 1,
             log |-> << LogAnswering(question, prediciton[1].decision) >>]

NoAnswer == [called |-> FALSE, returned |-> <<>>, calls |-> 0, log |-> <<>>]

\* -------------------------------------------------------------------- state
NoBets == [k \in KnownKinds |-> [q \in Questions |-> 0]]

InitSelect(maxLen) ==
    /\ max_markets_per_run \in {DefaultMaxMarketsPerRun, GPT4MaxMarketsPerRun}
    /\ is_predictable \in [Questions -> BOOLEAN]
    /\ bets = NoBets
    /\ markets \in SeqsUpTo(ListedMarkets, maxLen)
    /\ pc = "idle"
    /\ picked_markets = <<>>
    /\ log = <<>>
    /\ fetches = 0
    /\ evaluated = 0

InitStake ==
    /\ bet_market = NoMarket
    /\ bet_of = [d \in BOOLEAN |-> NoCall]

InitAnswer ==
    /\ answer_question = ""
    /\ oracle_responses = [i \in 1..MaxPredictCalls |-> <<>>]
    /\ answer_result = NoAnswer

Init == InitSelect(MaxCandidates) /\ InitStake /\ InitAnswer
InitShortListing == InitSelect(MaxListed) /\ InitStake /\ InitAnswer
InitNoListing == InitSelect(0) /\ InitStake /\ InitAnswer

\* The scheduler's run calls pick_markets on the listed candidates.
PickMarkets ==
    /\ pc # "picked"
    /\ LET r == pick_markets(markets, bets, is_predictable, max_markets_per_run)
       IN /\ picked_markets' = r.picked
          /\ log' = r.log
          /\ fetches' = r.fetches
          /\ evaluated' = r.evaluated
          /\ pc' = IF r.status = "ok" THEN "picked" ELSE "error"
    /\ UNCHANGED << max_markets_per_run, is_predictable, bets, markets >>
    /\ UNCHANGED << stakeVars, answerVars >>

\* Occurrences of the (kind, question) pair in a picked list.
Occurrences(s, k, q) == Cardinality({ i \in 1..Len(s) : s[i].kind = k /\ s[i].question = q })

\* The runtime places a bet on each picked market and the platform records
\* them; the run is over and its locals are gone.
PlaceBets ==
    /\ pc = "picked"
    /\ bets' = [k \in KnownKinds |-> [q \in Questions |->
                    bets[k][q] + Occurrences(picked_markets, k, q)]]
    /\ pc' = "idle"
    /\ picked_markets' = <<>>
    /\ log' = <<>>
    /\ fetches' = 0
    /\ evaluated' = 0
    /\ UNCHANGED << max_markets_per_run, is_predictable, markets >>
    /\ UNCHANGED << stakeVars, answerVars >>

\* Time passes: the bets on one question of one platform leave the 24h window.
Expire ==
    \E k \in KnownKinds, q \in Questions :
        /\ bets[k][q] > 0
        /\ bets' = [bets EXCEPT ![k][q] = 0]
        /\ UNCHANGED << max_markets_per_run, is_predictable, markets, pc,
                        picked_markets, log, fetches, evaluated >>
        /\ UNCHANGED << stakeVars, answerVars >>

\* calculate_bet_amount(answer, market); the outcomes of the calls on one
\* market are kept per decision until another market is sized.
CalculateBetAmount ==
    \E answer \in OutcomePredictions, market \in SizedMarkets :
        /\ bet_market' = market
        /\ bet_of' = [d \in BOOLEAN |->
                        IF d = answer.decision THEN calculate_bet_amount(answer, market)
                        ELSE IF market = bet_market THEN bet_of[d]
                        ELSE NoCall]
        /\ UNCHANGED << selectVars, answerVars >>

\* answer_binary_market(market) against an oracle answering oracle_responses.
AnswerBinaryMarket ==
    \E question \in Questions, responses \in [1..MaxPredictCalls -> OptionalOutcomes] :
        /\ answer_question' = question
        /\ oracle_responses' = responses
        /\ answer_result' = answer_binary_market(question, responses)
        /\ UNCHANGED << selectVars, stakeVars >>

Next == PickMarkets \/ PlaceBets \/ Expire
NextStake == PickMarkets \/ PlaceBets \/ Expire \/ CalculateBetAmount
NextAnswer == AnswerBinaryMarket

\* Runs of the selector on listings of up to MaxCandidates markets.
Spec == Init /\ [][Next]_vars
\* The stake sizer beside runs on listings of up to MaxListed markets.
SpecStake == InitShortListing /\ [][NextStake]_vars
\* The answer resolver.
SpecAnswer == InitNoListing /\ [][NextAnswer]_vars

\* =================================================================== claims

RECURSIVE IsSubsequence(_, _)
IsSubsequence(s, t) ==
    IF s = <<>> THEN TRUE
    ELSE IF t = <<>> THEN FALSE
    ELSE IF Head(s) = Head(t) THEN IsSubsequence(Tail(s), Tail(t))
    ELSE IsSubsequence(s, Tail(t))

\* C1: the list pick_markets returns is no longer than max_markets_per_run
\* and is an order-preserving subsequence of the candidates.
C1_PickedBoundedSubsequence ==
    pc = "picked" =>
        /\ Len(picked_markets) <= max_markets_per_run
        /\ IsSubsequence(picked_markets, markets)

\* A run of the default variant that returned 5 of more than 5 candidates.
C1_Witness ==
    /\ pc = "picked"
    /\ max_markets_per_run = DefaultMaxMarketsPerRun
    /\ Len(picked_markets) = max_markets_per_run
    /\ Len(markets) > Len(picked_markets)

\* C2: every returned market passed both filters: its question is not among
\* its platform's 24h bets, and the oracle judged it predictable.
C2_PickedPassedBothFilters ==
    pc = "picked" =>
        \A i \in 1..Len(picked_markets) :
            /\ picked_markets[i].kind \in KnownKinds
            /\ bets[picked_markets[i].kind][picked_markets[i].question] = 0
            /\ is_predictable[picked_markets[i].question]

\* A run returned markets and left out a candidate the oracle judges
\* predictable whose question is among its platform's 24h bets.
C2_Witness ==
    /\ pc = "picked"
    /\ picked_markets # <<>>
    /\ \E i \in 1..evaluated :
        /\ markets[i].kind \in KnownKinds
        /\ bets[markets[i].kind][markets[i].question] > 0
        /\ is_predictable[markets[i].question]
        /\ markets[i] \notin Range(picked_markets)

\* The platform's maximum for a market, as the claim C3 states it.
PlatformMaximum(m) ==
    IF m.kind = "manifold" THEN 10 * Unit
    ELSE IF m.liquidity > 5 * Unit THEN 2 * Unit
    ELSE IF m.liquidity > Unit THEN Unit \div 10
    ELSE 0

\* C3: on a known platform the returned amount is at most the platform's
\* maximum for the market, unless the computed amount exceeded that maximum,
\* and then it is exactly the market's tiny bet amount.
C3_AmountWithinMaximumOrTiny ==
    \A d \in BOOLEAN :
        (bet_of[d].called /\ bet_market.kind \in KnownKinds) =>
            IF bet_of[d].computed > PlatformMaximum(bet_market)
            THEN bet_of[d].amount = bet_market.tiny_bet_amount
            ELSE bet_of[d].amount <= PlatformMaximum(bet_market)

\* A Manifold call whose computed amount exceeded 10 and came back as the
\* tiny bet amount.
C3_Witness ==
    \E d \in BOOLEAN :
        /\ bet_of[d].called
        /\ bet_market.kind = "manifold"
        /\ bet_of[d].computed > PlatformMaximum(bet_market)
        /\ bet_of[d].amount = bet_market.tiny_bet_amount

\* The decision that agrees with the market's majority lean.
Agreeing(m) == m.current_p_yes > Unit \div 2

\* C4 as stated: on every Omen market, of two calls that differ only in the
\* decision, the agreeing one returns strictly less, in the ratio 0.75 : 1.25.
C4_BiasForEveryLiquidity ==
    (bet_market.kind = "omen" /\ bet_of[TRUE].called /\ bet_of[FALSE].called) =>
        /\ bet_of[Agreeing(bet_market)].amount < bet_of[~Agreeing(bet_market)].amount
        /\ bet_of[Agreeing(bet_market)].amount * 125
               = bet_of[~Agreeing(bet_market)].amount * 75

\* C4 as amended: the same on every Omen market with liquidity above 5.
C4_BiasAboveTopTier ==
    (/\ bet_market.kind = "omen"
     /\ bet_market.liquidity > 5 * Unit
     /\ bet_of[TRUE].called /\ bet_of[FALSE].called) =>
        /\ bet_of[Agreeing(bet_market)].amount < bet_of[~Agreeing(bet_market)].amount
        /\ bet_of[Agreeing(bet_market)].amount * 125
               = bet_of[~Agreeing(bet_market)].amount * 75

\* An Omen market with liquidity above 5 and a lean was sized for both decisions.
C4_Witness ==
    /\ bet_market.kind = "omen"
    /\ bet_market.liquidity > 5 * Unit
    /\ bet_market.current_p_yes > Unit \div 2
    /\ bet_of[TRUE].called /\ bet_of[FALSE].called
    /\ bet_of[TRUE].amount < bet_of[FALSE].amount

\* C5 as stated: within one 24h window no question text has more than one bet.
C5_NoQuestionActedTwice ==
    \A q \in Questions : bets["manifold"][q] + bets["omen"][q] <= 1

\* C6: a market of an unrecognized type ends calculate_bet_amount, and the
\* pick_markets run whose recency test evaluates it, in should_not_happen,
\* with no BetAmount and no selected list.
C6_UnknownKindIsFatal ==
    /\ \A d \in BOOLEAN :
        (bet_of[d].called /\ bet_market.kind \notin KnownKinds) =>
            (bet_of[d].raised /\ bet_of[d].amount = 0 /\ ~bet_of[d].warned)
    /\ (\E i \in 1..evaluated : markets[i].kind \notin KnownKinds) =>
            (pc = "error" /\ picked_markets = <<>>)

\* Both operations met a market of an unrecognized type.
C6_Witness ==
    /\ \E d \in BOOLEAN : bet_of[d].called /\ bet_of[d].raised
    /\ bet_market.kind = "other"
    /\ pc = "error"
    /\ evaluated > 0
    /\ markets[evaluated].kind = "other"

\* C7: answer_binary_market returns None when the oracle's prediction has no
\* outcome prediction and that outcome prediction unchanged otherwise, and it
\* asks the oracle once.
C7_AnswerIsOraclesFirst ==
    answer_result.called =>
        /\ (oracle_responses[1] = <<>> => answer_result.returned = <<>>)
        /\ (oracle_responses[1] # <<>> => answer_result.returned = oracle_responses[1])
        /\ answer_result.calls = 1

\* The oracle failed once and would have answered a second call.
C7_Witness ==
    /\ answer_result.called
    /\ oracle_responses[1] = <<>>
    /\ oracle_responses[2] # <<>>
    /\ answer_result.returned = <<>>

\* A logged line that states why the candidate with question q was dropped:
\* the selector's only such line follows the recency line of the candidate.
DropReasonLogged(q) ==
    \E j \in 1..(Len(log) - 1) : log[j] = LogLooking(q) /\ log[j + 1] = LogRecentlyBetted

\* C8 as stated: every candidate that is not in the returned list has a
\* logged reason.
C8_EveryDropLogged ==
    pc = "picked" =>
        \A i \in 1..Len(markets) :
            markets[i] \notin Range(picked_markets) => DropReasonLogged(markets[i].question)

\* C9 as stated: a run issues at most one history fetch per platform kind
\* among the candidates it evaluated.
C9_OneFetchPerPlatform ==
    fetches <= Cardinality({ markets[i].kind : i \in 1..evaluated })

\* C10: on an Omen market, with the base stake in [0.5, 1.0], the computed
\* amount is returned if and only if liquidity > 5; for liquidity <= 5 the
\* tiny bet amount is always substituted, for liquidity > 5 never.
C10_SubstitutedIffLiquidityAtMost5 ==
    \A d \in BOOLEAN :
        (/\ bet_of[d].called
         /\ bet_market.kind = "omen"
         /\ bet_of[d].base >= Unit \div 2
         /\ bet_of[d].base <= Unit) =>
            /\ (bet_of[d].amount = bet_of[d].computed) <=> (bet_market.liquidity > 5 * Unit)
            /\ bet_of[d].warned <=> (bet_market.liquidity <= 5 * Unit)
            /\ bet_of[d].warned => bet_of[d].amount = bet_market.tiny_bet_amount

\* An Omen market of the 0.1 tier, at its upper edge, had the tiny bet
\* amount substituted.
C10_Witness ==
    \E d \in BOOLEAN :
        /\ bet_of[d].called
        /\ bet_market.kind = "omen"
        /\ bet_market.liquidity = 5 * Unit
        /\ bet_of[d].warned
        /\ bet_of[d].amount = bet_market.tiny_bet_amount

====
